---- MODULE Spec2Model ----
(***************************************************************************)
(* Model of golift/ffmpeg: the encoder configuration, its normalisation    *)
(* (Get, the Set* methods, fixValues), the assembly of the ffmpeg command  *)
(* line (getVideoHandle) and the two invocations (GetVideo, SaveVideo).    *)
(* Go strings are TLA+ strings; the conversions of strconv, strings and    *)
(* path/filepath are computed character by character.                      *)
(***************************************************************************)
EXTENDS Integers, Sequences, FiniteSets, TLC

VARIABLES config, last, procs, calls, pc, pending, proc, pipe, buf

vars == <<config, last, procs, calls, pc, pending, proc, pipe, buf>>

(* ---------------- package variables (defaults, minimums, maximums) ----- *)
DefaultFrameRate == 5
MinimumFrameRate == 1
MaximumFrameRate == 60
DefaultFrameHeight == 720
DefaultFrameWidth == 1280
MinimumFrameSize == 100
MaximumFrameSize == 5000
DefaultEncodeCRF == 21
MinimumEncodeCRF == 16
MaximumEncodeCRF == 30
DefaultCaptureTime == 15
MaximumCaptureTime == 1200
DefaultCaptureSize == 2500000
MaximumCaptureSize == 104857600
DefaultFFmpegPath == "/usr/local/bin/ffmpeg"
DefaultProfile == "main"
DefaultLevel == "3.0"

ErrInvalidOutput == "output path is not valid"
ErrInvalidInput == "input path is not valid"
\* the nil error
Nil == "<nil>"

(* ---------------- bounds of the model ---------------------------------- *)
\* calls made on an encoder after the initial Get
MaxCalls == 2

\* writes the pipe between a process and its reader holds before a writer blocks
PipeCapacity == 2

\* the largest number of writes a streaming process makes: one more than the pipe holds
MaxWrites == PipeCapacity + 1

(* ---------------- strconv, strings, path/filepath ---------------------- *)
Digits == <<"0", "1", "2", "3", "4", "5", "6", "7", "8", "9">>

IsDigit(ch) == \E i \in 1..10 : Digits[i] = ch

DigitVal(ch) == (CHOOSE i \in 1..10 : Digits[i] = ch) - 1

RECURSIVE AllDigits(_)
AllDigits(s) == s = "" \/ (IsDigit(Head(s)) /\ AllDigits(Tail(s)))

RECURSIVE DigitsVal(_, _)
\* n*10 + ch over the digits of s, left to right
DigitsVal(s, n) == IF s = "" THEN n ELSE DigitsVal(Tail(s), n * 10 + DigitVal(Head(s)))

\* strconv.ParseInt(s, 10, 64) with the error dropped: 0 on a syntax error.
\* Texts are kept short enough that the range error cannot occur.
ParseInt(s) ==
    LET signed == s # "" /\ Head(s) \in {"+", "-"}
        body == IF signed THEN Tail(s) ELSE s
    IN  IF body = "" \/ ~AllDigits(body) THEN 0
        ELSE IF Head(s) = "-" THEN 0 - DigitsVal(body, 0)
        ELSE DigitsVal(body, 0)

\* strconv.Atoi with the error dropped
Atoi(s) == ParseInt(s)

\* strconv.ParseBool with the error dropped: false on any other text
ParseBool(s) == s \in {"1", "t", "T", "TRUE", "true", "True"}

RECURSIVE FormatUint(_)
FormatUint(n) == IF n < 10 THEN Digits[n + 1] ELSE FormatUint(n \div 10) \o Digits[(n % 10) + 1]

\* strconv.FormatInt(n, 10)
FormatInt(n) == IF n < 0 THEN "-" \o FormatUint(0 - n) ELSE FormatUint(n)

\* strconv.Itoa
Itoa(n) == FormatInt(n)

RECURSIVE Join(_, _)
\* strings.Join
Join(elems, sep) ==
    IF elems = <<>> THEN ""
    ELSE IF Len(elems) = 1 THEN elems[1]
    ELSE elems[1] \o sep \o Join(Tail(elems), sep)

IsSpace(ch) == ch \in {" ", "\t", "\n", "\r", "\f"}

RECURSIVE TrimLeft(_)
TrimLeft(s) == IF s # "" /\ IsSpace(Head(s)) THEN TrimLeft(Tail(s)) ELSE s

RECURSIVE TrimRight(_)
TrimRight(s) ==
    IF s # "" /\ IsSpace(SubSeq(s, Len(s), Len(s))) THEN TrimRight(SubSeq(s, 1, Len(s) - 1)) ELSE s

\* strings.TrimSpace
TrimSpace(s) == TrimRight(TrimLeft(s))

RECURSIVE StripSlashes(_)
StripSlashes(p) ==
    IF p # "" /\ SubSeq(p, Len(p), Len(p)) = "/" THEN StripSlashes(SubSeq(p, 1, Len(p) - 1)) ELSE p

RECURSIVE LastElem(_)
\* the text after the last separator
LastElem(p) ==
    IF p = "" THEN ""
    ELSE IF SubSeq(p, Len(p), Len(p)) = "/" THEN ""
    ELSE LastElem(SubSeq(p, 1, Len(p) - 1)) \o SubSeq(p, Len(p), Len(p))

\* a Base that keeps the directory
BaseWholePath(path) == IF path = "" THEN "." ELSE path

\* filepath.Base on a slash-separated path
Base(path) ==
    IF path = "" THEN "."
    ELSE LET e == LastElem(StripSlashes(path)) IN IF e = "" THEN "/" ELSE e

(* ---------------- Config and its normalisation -------------------------- *)
\* the zero value of Config
ZeroConfig ==
    [Copy |-> FALSE, Audio |-> FALSE, Width |-> 0, Height |-> 0, CRF |-> 0,
     Time |-> 0, Rate |-> 0, Size |-> 0, FFMPEG |-> "", Level |-> "", Prof |-> ""]

\* fixValues without the default for a zero Time
fixValuesNoTimeDefault(c) ==
    [c EXCEPT
        !.Height = IF @ = 0 THEN DefaultFrameHeight
                   ELSE IF @ > MaximumFrameSize THEN MaximumFrameSize
                   ELSE IF @ < MinimumFrameSize THEN MinimumFrameSize
                   ELSE @,
        !.Width  = IF @ = 0 THEN DefaultFrameWidth
                   ELSE IF @ > MaximumFrameSize THEN MaximumFrameSize
                   ELSE IF @ < MinimumFrameSize THEN MinimumFrameSize
                   ELSE @,
        !.CRF    = IF @ = 0 THEN DefaultEncodeCRF
                   ELSE IF @ < MinimumEncodeCRF THEN MinimumEncodeCRF
                   ELSE IF @ > MaximumEncodeCRF THEN MaximumEncodeCRF
                   ELSE @,
        !.Rate   = IF @ = 0 THEN DefaultFrameRate
                   ELSE IF @ < MinimumFrameRate THEN MinimumFrameRate
                   ELSE IF @ > MaximumFrameRate THEN MaximumFrameRate
                   ELSE @,
        !.Time   = IF @ > MaximumCaptureTime THEN MaximumCaptureTime
                   ELSE @,
        !.Size   = IF @ = 0 THEN DefaultCaptureSize
                   ELSE IF @ > MaximumCaptureSize THEN MaximumCaptureSize
                   ELSE @]

\* fixValues without the cap on Size
fixValuesNoSizeCap(c) ==
    [c EXCEPT
        !.Height = IF @ = 0 THEN DefaultFrameHeight
                   ELSE IF @ > MaximumFrameSize THEN MaximumFrameSize
                   ELSE IF @ < MinimumFrameSize THEN MinimumFrameSize
                   ELSE @,
        !.Width  = IF @ = 0 THEN DefaultFrameWidth
                   ELSE IF @ > MaximumFrameSize THEN MaximumFrameSize
                   ELSE IF @ < MinimumFrameSize THEN MinimumFrameSize
                   ELSE @,
        !.CRF    = IF @ = 0 THEN DefaultEncodeCRF
                   ELSE IF @ < MinimumEncodeCRF THEN MinimumEncodeCRF
                   ELSE IF @ > MaximumEncodeCRF THEN MaximumEncodeCRF
                   ELSE @,
        !.Rate   = IF @ = 0 THEN DefaultFrameRate
                   ELSE IF @ < MinimumFrameRate THEN MinimumFrameRate
                   ELSE IF @ > MaximumFrameRate THEN MaximumFrameRate
                   ELSE @,
        !.Time   = IF @ = 0 THEN DefaultCaptureTime
                   ELSE IF @ > MaximumCaptureTime THEN MaximumCaptureTime
                   ELSE @,
        !.Size   = IF @ = 0 THEN DefaultCaptureSize
                   ELSE IF @ > MaximumCaptureSize THEN @
                   ELSE @]

\* fixValues that turns a Time above the maximum into 0
fixValuesTimeCapToZero(c) ==
    [c EXCEPT
        !.Height = IF @ = 0 THEN DefaultFrameHeight
                   ELSE IF @ > MaximumFrameSize THEN MaximumFrameSize
                   ELSE IF @ < MinimumFrameSize THEN MinimumFrameSize
                   ELSE @,
        !.Width  = IF @ = 0 THEN DefaultFrameWidth
                   ELSE IF @ > MaximumFrameSize THEN MaximumFrameSize
                   ELSE IF @ < MinimumFrameSize THEN MinimumFrameSize
                   ELSE @,
        !.CRF    = IF @ = 0 THEN DefaultEncodeCRF
                   ELSE IF @ < MinimumEncodeCRF THEN MinimumEncodeCRF
                   ELSE IF @ > MaximumEncodeCRF THEN MaximumEncodeCRF
                   ELSE @,
        !.Rate   = IF @ = 0 THEN DefaultFrameRate
                   ELSE IF @ < MinimumFrameRate THEN MinimumFrameRate
                   ELSE IF @ > MaximumFrameRate THEN MaximumFrameRate
                   ELSE @,
        !.Time   = IF @ = 0 THEN DefaultCaptureTime
                   ELSE IF @ > MaximumCaptureTime THEN 0
                   ELSE @,
        !.Size   = IF @ = 0 THEN DefaultCaptureSize
                   ELSE IF @ > MaximumCaptureSize THEN MaximumCaptureSize
                   ELSE @]

\* fixValues whose zero-width case writes Height
fixValuesWidthWritesHeight(c) ==
    [c EXCEPT
        !.Height = IF c.Width = 0 THEN DefaultFrameWidth
                   ELSE IF @ = 0 THEN DefaultFrameHeight
                   ELSE IF @ > MaximumFrameSize THEN MaximumFrameSize
                   ELSE IF @ < MinimumFrameSize THEN MinimumFrameSize
                   ELSE @,
        !.Width  = IF @ = 0 THEN DefaultFrameWidth
                   ELSE IF @ > MaximumFrameSize THEN MaximumFrameSize
                   ELSE IF @ < MinimumFrameSize THEN MinimumFrameSize
                   ELSE @,
        !.CRF    = IF @ = 0 THEN DefaultEncodeCRF
                   ELSE IF @ < MinimumEncodeCRF THEN MinimumEncodeCRF
                   ELSE IF @ > MaximumEncodeCRF THEN MaximumEncodeCRF
                   ELSE @,
        !.Rate   = IF @ = 0 THEN DefaultFrameRate
                   ELSE IF @ < MinimumFrameRate THEN MinimumFrameRate
                   ELSE IF @ > MaximumFrameRate THEN MaximumFrameRate
                   ELSE @,
        !.Time   = IF @ = 0 THEN DefaultCaptureTime
                   ELSE IF @ > MaximumCaptureTime THEN MaximumCaptureTime
                   ELSE @,
        !.Size   = IF @ = 0 THEN DefaultCaptureSize
                   ELSE IF @ > MaximumCaptureSize THEN MaximumCaptureSize
                   ELSE @]

\* fixValues makes sure video request values are sane.
fixValues(c) ==
    [c EXCEPT
        !.Height = IF @ = 0 THEN DefaultFrameHeight
                   ELSE IF @ > MaximumFrameSize THEN MaximumFrameSize
                   ELSE IF @ < MinimumFrameSize THEN MinimumFrameSize
                   ELSE @,
        !.Width  = IF @ = 0 THEN DefaultFrameWidth
                   ELSE IF @ > MaximumFrameSize THEN MaximumFrameSize
                   ELSE IF @ < MinimumFrameSize THEN MinimumFrameSize
                   ELSE @,
        !.CRF    = IF @ = 0 THEN DefaultEncodeCRF
                   ELSE IF @ < MinimumEncodeCRF THEN MinimumEncodeCRF
                   ELSE IF @ > MaximumEncodeCRF THEN MaximumEncodeCRF
                   ELSE @,
        !.Rate   = IF @ = 0 THEN DefaultFrameRate
                   ELSE IF @ < MinimumFrameRate THEN MinimumFrameRate
                   ELSE IF @ > MaximumFrameRate THEN MaximumFrameRate
                   ELSE @,
        !.Time   = IF @ = 0 THEN DefaultCaptureTime
                   ELSE IF @ > MaximumCaptureTime THEN MaximumCaptureTime
                   ELSE @,
        !.Size   = IF @ = 0 THEN DefaultCaptureSize
                   ELSE IF @ > MaximumCaptureSize THEN MaximumCaptureSize
                   ELSE @]

\* The Set* methods, as the configuration they leave behind; the value a
\* method returns is the field it has just written.
SetAudio(c, audio) == [c EXCEPT !.Audio = ParseBool(audio)]

\* SetLevel that stores whatever it is given
SetLevelNoDefault(c, level) == [c EXCEPT !.Level = level]

SetLevel(c, level) ==
    IF level # "3.0" /\ level # "3.1" /\ level # "4.0" /\ level # "4.1" /\ level # "4.2"
    THEN [c EXCEPT !.Level = DefaultLevel]
    ELSE [c EXCEPT !.Level = level]

SetProfile(c, profile) ==
    IF profile # "main" /\ profile # "baseline" /\ profile # "high"
    THEN [c EXCEPT !.Prof = DefaultProfile]
    ELSE [c EXCEPT !.Prof = profile]

SetWidth(c, width) == fixValues([c EXCEPT !.Width = Atoi(width)])

SetHeight(c, height) == fixValues([c EXCEPT !.Height = Atoi(height)])

SetCRF(c, crf) == fixValues([c EXCEPT !.CRF = Atoi(crf)])

SetTime(c, seconds) == fixValues([c EXCEPT !.Time = Atoi(seconds)])

\* SetRate without the clamp pass
SetRateNoFix(c, rate) == [c EXCEPT !.Rate = Atoi(rate)]

SetRate(c, rate) == fixValues([c EXCEPT !.Rate = Atoi(rate)])

SetSize(c, size) == fixValues([c EXCEPT !.Size = ParseInt(size)])

\* Get without the clamp pass
GetNoFixValues(c) ==
    LET withPath == IF c.FFMPEG = "" THEN [c EXCEPT !.FFMPEG = DefaultFFmpegPath] ELSE c
    IN  SetProfile(SetLevel(withPath, withPath.Level), withPath.Prof)

\* Get an encoder: the configuration the new encoder holds.
Get(c) ==
    LET withPath == IF c.FFMPEG = "" THEN [c EXCEPT !.FFMPEG = DefaultFFmpegPath] ELSE c
    IN  fixValues(SetProfile(SetLevel(withPath, withPath.Level), withPath.Prof))

(* ---------------- command assembly -------------------------------------- *)
\* a Command whose vector lacks the program name
CommandNoName(name, arg) == [Path |-> name, Args |-> arg]

\* exec.Command(name, arg...): the program and the argument vector it is run with
Command(name, arg) == [Path |-> name, Args |-> <<name>> \o arg]

\* getVideoHandle with the duration flag placed after the video block
getVideoHandleTimeLast(c, input, output, title) ==
    LET t    == IF title = "" THEN Base(output) ELSE title
        arg0 == <<c.FFMPEG,
                  "-v", "16",
                  "-rtsp_transport", "tcp",
                  "-i", input,
                  "-f", "mov",
                  "-metadata", "title=\"" \o t \o "\"",
                  "-y", "-map", "0">>
        arg1 == IF c.Size > 0 THEN arg0 \o <<"-fs", FormatInt(c.Size)>> ELSE arg0
        arg2 == arg1
        arg3 == IF ~c.Copy
                THEN arg2 \o <<"-vcodec", "libx264",
                               "-profile:v", c.Prof,
                               "-level", c.Level,
                               "-pix_fmt", "yuv420p",
                               "-movflags", "faststart",
                               "-s", Itoa(c.Width) \o "x" \o Itoa(c.Height),
                               "-preset", "superfast",
                               "-crf", Itoa(c.CRF),
                               "-r", Itoa(c.Rate)>>
                ELSE arg2 \o <<"-c", "copy">>
        argT == IF c.Time > 0 THEN arg3 \o <<"-t", Itoa(c.Time)>> ELSE arg3
        arg4 == IF ~c.Audio THEN Append(argT, "-an") ELSE argT \o <<"-c:a", "copy">>
        arg  == Append(arg4, output)
    IN  [cmdStr |-> Join(arg, " "), cmd |-> Command(arg[1], SubSeq(arg, 2, Len(arg)))]

\* getVideoHandle with the audio test inverted
getVideoHandleAudioInverted(c, input, output, title) ==
    LET t    == IF title = "" THEN Base(output) ELSE title
        arg0 == <<c.FFMPEG,
                  "-v", "16",
                  "-rtsp_transport", "tcp",
                  "-i", input,
                  "-f", "mov",
                  "-metadata", "title=\"" \o t \o "\"",
                  "-y", "-map", "0">>
        arg1 == IF c.Size > 0 THEN arg0 \o <<"-fs", FormatInt(c.Size)>> ELSE arg0
        arg2 == IF c.Time > 0 THEN arg1 \o <<"-t", Itoa(c.Time)>> ELSE arg1
        arg3 == IF ~c.Copy
                THEN arg2 \o <<"-vcodec", "libx264",
                               "-profile:v", c.Prof,
                               "-level", c.Level,
                               "-pix_fmt", "yuv420p",
                               "-movflags", "faststart",
                               "-s", Itoa(c.Width) \o "x" \o Itoa(c.Height),
                               "-preset", "superfast",
                               "-crf", Itoa(c.CRF),
                               "-r", Itoa(c.Rate)>>
                ELSE arg2 \o <<"-c", "copy">>
        arg4 == IF c.Audio THEN Append(arg3, "-an") ELSE arg3 \o <<"-c:a", "copy">>
        arg  == Append(arg4, output)
    IN  [cmdStr |-> Join(arg, " "), cmd |-> Command(arg[1], SubSeq(arg, 2, Len(arg)))]

\* getVideoHandle that passes every non-zero duration
getVideoHandleTimeNonZero(c, input, output, title) ==
    LET t    == IF title = "" THEN Base(output) ELSE title
        arg0 == <<c.FFMPEG,
                  "-v", "16",
                  "-rtsp_transport", "tcp",
                  "-i", input,
                  "-f", "mov",
                  "-metadata", "title=\"" \o t \o "\"",
                  "-y", "-map", "0">>
        arg1 == IF c.Size > 0 THEN arg0 \o <<"-fs", FormatInt(c.Size)>> ELSE arg0
        arg2 == IF c.Time # 0 THEN arg1 \o <<"-t", Itoa(c.Time)>> ELSE arg1
        arg3 == IF ~c.Copy
                THEN arg2 \o <<"-vcodec", "libx264",
                               "-profile:v", c.Prof,
                               "-level", c.Level,
                               "-pix_fmt", "yuv420p",
                               "-movflags", "faststart",
                               "-s", Itoa(c.Width) \o "x" \o Itoa(c.Height),
                               "-preset", "superfast",
                               "-crf", Itoa(c.CRF),
                               "-r", Itoa(c.Rate)>>
                ELSE arg2 \o <<"-c", "copy">>
        arg4 == IF ~c.Audio THEN Append(arg3, "-an") ELSE arg3 \o <<"-c:a", "copy">>
        arg  == Append(arg4, output)
    IN  [cmdStr |-> Join(arg, " "), cmd |-> Command(arg[1], SubSeq(arg, 2, Len(arg)))]

\* getVideoHandle creates the ffmpeg command: the joined text and the exec.Cmd.
getVideoHandle(c, input, output, title) ==
    LET t    == IF title = "" THEN Base(output) ELSE title
        arg0 == <<c.FFMPEG,
                  "-v", "16",
                  "-rtsp_transport", "tcp",
                  "-i", input,
                  "-f", "mov",
                  "-metadata", "title=\"" \o t \o "\"",
                  "-y", "-map", "0">>
        arg1 == IF c.Size > 0 THEN arg0 \o <<"-fs", FormatInt(c.Size)>> ELSE arg0
        arg2 == IF c.Time > 0 THEN arg1 \o <<"-t", Itoa(c.Time)>> ELSE arg1
        arg3 == IF ~c.Copy
                THEN arg2 \o <<"-vcodec", "libx264",
                               "-profile:v", c.Prof,
                               "-level", c.Level,
                               "-pix_fmt", "yuv420p",
                               "-movflags", "faststart",
                               "-s", Itoa(c.Width) \o "x" \o Itoa(c.Height),
                               "-preset", "superfast",
                               "-crf", Itoa(c.CRF),
                               "-r", Itoa(c.Rate)>>
                ELSE arg2 \o <<"-c", "copy">>
        arg4 == IF ~c.Audio THEN Append(arg3, "-an") ELSE arg3 \o <<"-c:a", "copy">>
        arg  == Append(arg4, output)
    IN  [cmdStr |-> Join(arg, " "), cmd |-> Command(arg[1], SubSeq(arg, 2, Len(arg)))]

(* ---------------- the host: what running a command can do --------------- *)
\* a program that is not on the host
MissingProgram == "/nonexistent"

\* the program the tests run in place of ffmpeg
EchoProgram == "echo"

\* one write of video data by a streaming process
VideoBlock == "<mov>"

\* The runs a command can have once handed to the operating system: whether
\* it starts, the writes it makes (fd 1 is stdout, fd 2 stderr) and how it
\* exits.  echo writes its arguments separated by spaces and a newline; any
\* other program present on the host fails with a diagnostic or succeeds,
\* and when its output argument is "-" it writes its video to stdout.
ProcessRuns(cmd) ==
    IF cmd.Path = MissingProgram
    THEN {[start |-> "no such file or directory", writes |-> <<>>, wait |-> Nil]}
    ELSE IF cmd.Path = EchoProgram
    THEN {[start |-> Nil, wait |-> Nil,
           writes |-> <<[fd |-> 1, data |-> Join(Tail(cmd.Args), " ") \o "\n"]>>]}
    ELSE {[start |-> Nil, wait |-> "exit status 1",
           writes |-> <<[fd |-> 2, data |-> " Connection refused\n"]>>]}
         \cup
         (IF cmd.Args[Len(cmd.Args)] = "-"
          THEN {[start |-> Nil, wait |-> Nil, writes |-> [i \in 1..n |-> [fd |-> 1, data |-> VideoBlock]]]
                : n \in {1, MaxWrites}}
          ELSE {[start |-> Nil, wait |-> Nil, writes |-> <<>>]})

RECURSIVE Merged(_)
\* what a buffer given to both cmd.Stdout and cmd.Stderr holds after the writes
Merged(writes) == IF writes = <<>> THEN "" ELSE Head(writes).data \o Merged(Tail(writes))

(* ---------------- GetVideo and SaveVideo -------------------------------- *)
\* no process was asked for
NoRun == [start |-> Nil, writes |-> <<>>, wait |-> Nil]

\* GetVideo that drops the command text when the run fails
GetVideoNoCmdOnFailure(c, input, title) ==
    IF input = ""
    THEN {[cmd |-> "", stream |-> Nil, err |-> ErrInvalidInput, args |-> <<>>, started |-> FALSE, run |-> NoRun]}
    ELSE LET h == getVideoHandle(c, input, "-", title)
         IN  {IF run.start # Nil
              THEN [cmd |-> "", stream |-> "stdoutpipe", err |-> "run failed: " \o run.start,
                    args |-> h.cmd.Args, started |-> FALSE, run |-> run]
              ELSE IF run.wait # Nil
              THEN [cmd |-> "", stream |-> "stdoutpipe", err |-> "run failed: " \o run.wait,
                    args |-> h.cmd.Args, started |-> TRUE, run |-> run]
              ELSE [cmd |-> h.cmdStr, stream |-> "stdoutpipe", err |-> Nil,
                    args |-> h.cmd.Args, started |-> TRUE, run |-> run]
              : run \in ProcessRuns(h.cmd)}

\* GetVideo: the set of results the call can return once cmd.Run, which starts
\* the process and waits for it, is over.  cmd is the command text,
\* stream the ReadCloser (Nil or the stdout pipe), err the error; args is the
\* vector of the exec.Cmd that was built (empty when none was), started
\* tells whether a process was started and run is the run the host gave it.
GetVideo(c, input, title) ==
    IF input = ""
    THEN {[cmd |-> "", stream |-> Nil, err |-> ErrInvalidInput, args |-> <<>>, started |-> FALSE, run |-> NoRun]}
    ELSE LET h == getVideoHandle(c, input, "-", title)
         IN  {IF run.start # Nil
              THEN [cmd |-> h.cmdStr, stream |-> "stdoutpipe", err |-> "run failed: " \o run.start,
                    args |-> h.cmd.Args, started |-> FALSE, run |-> run]
              ELSE IF run.wait # Nil
              THEN [cmd |-> h.cmdStr, stream |-> "stdoutpipe", err |-> "run failed: " \o run.wait,
                    args |-> h.cmd.Args, started |-> TRUE, run |-> run]
              ELSE [cmd |-> h.cmdStr, stream |-> "stdoutpipe", err |-> Nil,
                    args |-> h.cmd.Args, started |-> TRUE, run |-> run]
              : run \in ProcessRuns(h.cmd)}

\* SaveVideo that accepts the stream sentinel as output
SaveVideoNoSentinelCheck(c, input, output, title) ==
    IF input = ""
    THEN {[cmd |-> "", out |-> "", err |-> ErrInvalidInput, args |-> <<>>, started |-> FALSE, run |-> NoRun]}
    ELSE IF output = ""
    THEN {[cmd |-> "", out |-> "", err |-> ErrInvalidOutput, args |-> <<>>, started |-> FALSE, run |-> NoRun]}
    ELSE LET h == getVideoHandle(c, input, output, title)
         IN  {IF run.start # Nil
              THEN [cmd |-> h.cmdStr, out |-> TrimSpace(""), err |-> "subcommand failed: " \o run.start,
                    args |-> h.cmd.Args, started |-> FALSE, run |-> run]
              ELSE IF run.wait # Nil
              THEN [cmd |-> h.cmdStr, out |-> TrimSpace(Merged(run.writes)),
                    err |-> "subcommand failed: " \o run.wait,
                    args |-> h.cmd.Args, started |-> TRUE, run |-> run]
              ELSE [cmd |-> h.cmdStr, out |-> TrimSpace(Merged(run.writes)), err |-> Nil,
                    args |-> h.cmd.Args, started |-> TRUE, run |-> run]
              : run \in ProcessRuns(h.cmd)}

\* SaveVideo that returns no output when the process fails
SaveVideoDropsOutputOnFailure(c, input, output, title) ==
    IF input = ""
    THEN {[cmd |-> "", out |-> "", err |-> ErrInvalidInput, args |-> <<>>, started |-> FALSE, run |-> NoRun]}
    ELSE IF output = "" \/ output = "-"
    THEN {[cmd |-> "", out |-> "", err |-> ErrInvalidOutput, args |-> <<>>, started |-> FALSE, run |-> NoRun]}
    ELSE LET h == getVideoHandle(c, input, output, title)
         IN  {IF run.start # Nil
              THEN [cmd |-> h.cmdStr, out |-> TrimSpace(""), err |-> "subcommand failed: " \o run.start,
                    args |-> h.cmd.Args, started |-> FALSE, run |-> run]
              ELSE IF run.wait # Nil
              THEN [cmd |-> h.cmdStr, out |-> "",
                    err |-> "subcommand failed: " \o run.wait,
                    args |-> h.cmd.Args, started |-> TRUE, run |-> run]
              ELSE [cmd |-> h.cmdStr, out |-> TrimSpace(Merged(run.writes)), err |-> Nil,
                    args |-> h.cmd.Args, started |-> TRUE, run |-> run]
              : run \in ProcessRuns(h.cmd)}

\* SaveVideo: the set of results the call can return; out is the command output.
SaveVideo(c, input, output, title) ==
    IF input = ""
    THEN {[cmd |-> "", out |-> "", err |-> ErrInvalidInput, args |-> <<>>, started |-> FALSE, run |-> NoRun]}
    ELSE IF output = "" \/ output = "-"
    THEN {[cmd |-> "", out |-> "", err |-> ErrInvalidOutput, args |-> <<>>, started |-> FALSE, run |-> NoRun]}
    ELSE LET h == getVideoHandle(c, input, output, title)
         IN  {IF run.start # Nil
              THEN [cmd |-> h.cmdStr, out |-> TrimSpace(""), err |-> "subcommand failed: " \o run.start,
                    args |-> h.cmd.Args, started |-> FALSE, run |-> run]
              ELSE IF run.wait # Nil
              THEN [cmd |-> h.cmdStr, out |-> TrimSpace(Merged(run.writes)),
                    err |-> "subcommand failed: " \o run.wait,
                    args |-> h.cmd.Args, started |-> TRUE, run |-> run]
              ELSE [cmd |-> h.cmdStr, out |-> TrimSpace(Merged(run.writes)), err |-> Nil,
                    args |-> h.cmd.Args, started |-> TRUE, run |-> run]
              : run \in ProcessRuns(h.cmd)}

(* ---------------- inputs of the model ----------------------------------- *)
\* texts handed to the numeric setters: empty, not a number, above every
\* maximum, below the minimums, negative, and inside the bounds
NumberTexts == {"", "x", "999999999", "1", "-1", "20", "150"}

AudioTexts == {"", "true", "x", "0"}

LevelTexts == {"", "4.0", "9.9", "4.2"}

ProfileTexts == {"", "baseline", "garbage", "high"}

Inputs == {"", "rtsp://x"}

Outputs == {"", "-", "/tmp/out.mov", "/tmp/x "}

Titles == {"", "T"}

\* the Config values handed to Get
RawConfigs ==
    {ZeroConfig,
     [ZeroConfig EXCEPT !.FFMPEG = EchoProgram],
     [ZeroConfig EXCEPT !.FFMPEG = EchoProgram, !.Audio = TRUE],
     [ZeroConfig EXCEPT !.FFMPEG = DefaultFFmpegPath, !.Copy = TRUE, !.Audio = TRUE, !.Time = 10],
     [ZeroConfig EXCEPT !.Audio = TRUE, !.Time = 10, !.Width = 1920, !.Height = 1080, !.CRF = 23,
                        !.Level = "4.0", !.Rate = 5, !.Prof = "baseline", !.Size = 5000000],
     [ZeroConfig EXCEPT !.FFMPEG = MissingProgram, !.Width = 9000, !.Height = 50, !.CRF = 99,
                        !.Rate = -3, !.Time = -7, !.Size = -1, !.Level = "9.9", !.Prof = "garbage"],
     [ZeroConfig EXCEPT !.FFMPEG = EchoProgram, !.Copy = TRUE, !.Width = 1, !.Height = 9000, !.CRF = 1,
                        !.Rate = 9000, !.Time = 9000, !.Size = 999999999, !.Level = "4.2",
                        !.Prof = "high"]}

(* ---------------- the state machine ------------------------------------- *)
\* config: the Config the encoder points to.  last: the last call that
\* returned, with its arguments and what it returned.  procs: the argument
\* vectors of the processes started so far.  calls: the number of calls that
\* returned after the first Get.  pc: where the caller is ("idle", or inside
\* the cmd.Run of GetVideo or the cmd.Wait of SaveVideo).  pending: the call
\* in progress.  proc: the process of the call in progress.  pipe: the writes
\* held by the stdout pipe of GetVideo.  buf: the bytes.Buffer of SaveVideo.
NoCall == [op |-> "none"]

NoProc == [state |-> "none", todo |-> <<>>, exit |-> Nil]

exec == <<pc, pending, proc, pipe, buf>>

Init ==
    \E c \in RawConfigs :
        /\ config = Get(c)
        /\ last = [op |-> "Get", arg |-> c]
        /\ procs = <<>>
        /\ calls = 0
        /\ pc = "idle"
        /\ pending = NoCall
        /\ proc = NoProc
        /\ pipe = <<>>
        /\ buf = ""

CallGet(c) ==
    /\ pc = "idle" /\ calls < MaxCalls
    /\ config' = Get(c)
    /\ last' = [op |-> "Get", arg |-> c]
    /\ calls' = calls + 1
    /\ UNCHANGED <<procs, exec>>

CallSetAudio(audio) ==
    /\ pc = "idle" /\ calls < MaxCalls
    /\ config' = SetAudio(config, audio)
    /\ last' = [op |-> "SetAudio", arg |-> audio, ret |-> config'.Audio]
    /\ calls' = calls + 1
    /\ UNCHANGED <<procs, exec>>

CallSetLevel(level) ==
    /\ pc = "idle" /\ calls < MaxCalls
    /\ config' = SetLevel(config, level)
    /\ last' = [op |-> "SetLevel", arg |-> level, ret |-> config'.Level]
    /\ calls' = calls + 1
    /\ UNCHANGED <<procs, exec>>

CallSetProfile(profile) ==
    /\ pc = "idle" /\ calls < MaxCalls
    /\ config' = SetProfile(config, profile)
    /\ last' = [op |-> "SetProfile", arg |-> profile, ret |-> config'.Prof]
    /\ calls' = calls + 1
    /\ UNCHANGED <<procs, exec>>

CallSetWidth(width) ==
    /\ pc = "idle" /\ calls < MaxCalls
    /\ config' = SetWidth(config, width)
    /\ last' = [op |-> "SetWidth", arg |-> width, ret |-> config'.Width]
    /\ calls' = calls + 1
    /\ UNCHANGED <<procs, exec>>

CallSetHeight(height) ==
    /\ pc = "idle" /\ calls < MaxCalls
    /\ config' = SetHeight(config, height)
    /\ last' = [op |-> "SetHeight", arg |-> height, ret |-> config'.Height]
    /\ calls' = calls + 1
    /\ UNCHANGED <<procs, exec>>

CallSetCRF(crf) ==
    /\ pc = "idle" /\ calls < MaxCalls
    /\ config' = SetCRF(config, crf)
    /\ last' = [op |-> "SetCRF", arg |-> crf, ret |-> config'.CRF]
    /\ calls' = calls + 1
    /\ UNCHANGED <<procs, exec>>

CallSetTime(seconds) ==
    /\ pc = "idle" /\ calls < MaxCalls
    /\ config' = SetTime(config, seconds)
    /\ last' = [op |-> "SetTime", arg |-> seconds, ret |-> config'.Time]
    /\ calls' = calls + 1
    /\ UNCHANGED <<procs, exec>>

CallSetRate(rate) ==
    /\ pc = "idle" /\ calls < MaxCalls
    /\ config' = SetRate(config, rate)
    /\ last' = [op |-> "SetRate", arg |-> rate, ret |-> config'.Rate]
    /\ calls' = calls + 1
    /\ UNCHANGED <<procs, exec>>

CallSetSize(size) ==
    /\ pc = "idle" /\ calls < MaxCalls
    /\ config' = SetSize(config, size)
    /\ last' = [op |-> "SetSize", arg |-> size, ret |-> config'.Size]
    /\ calls' = calls + 1
    /\ UNCHANGED <<procs, exec>>

\* GetVideo up to the point where cmd.Run has started the process; a call
\* that is refused, or whose process does not start, returns at once.
CallGetVideo(input, title) ==
    /\ pc = "idle" /\ calls < MaxCalls
    /\ \E r \in GetVideo(config, input, title) :
        LET call == [op |-> "GetVideo", input |-> input, output |-> "-", title |-> title,
                     cmd |-> r.cmd, stream |-> r.stream, err |-> r.err, args |-> r.args,
                     started |-> r.started]
        IN  IF r.started
            THEN /\ pc' = "GetVideo"
                 /\ pending' = call
                 /\ proc' = [state |-> "running", todo |-> r.run.writes, exit |-> r.run.wait]
                 /\ procs' = Append(procs, r.args)
                 /\ UNCHANGED <<last, calls, pipe, buf>>
            ELSE /\ last' = call @@ [open |-> FALSE, exited |-> FALSE, unread |-> 0]
                 /\ calls' = calls + 1
                 /\ UNCHANGED <<procs, exec>>
    /\ UNCHANGED config

\* SaveVideo up to the point where cmd.Start has started the process
CallSaveVideo(input, output, title) ==
    /\ pc = "idle" /\ calls < MaxCalls
    /\ \E r \in SaveVideo(config, input, output, title) :
        LET call == [op |-> "SaveVideo", input |-> input, output |-> output, title |-> title,
                     cmd |-> r.cmd, out |-> r.out, err |-> r.err, args |-> r.args,
                     started |-> r.started]
        IN  IF r.started
            THEN /\ pc' = "SaveVideo"
                 /\ pending' = call
                 /\ proc' = [state |-> "running", todo |-> r.run.writes, exit |-> r.run.wait]
                 /\ procs' = Append(procs, r.args)
                 /\ UNCHANGED <<last, calls, pipe, buf>>
            ELSE /\ last' = call @@ [exited |-> FALSE]
                 /\ calls' = calls + 1
                 /\ UNCHANGED <<procs, exec>>
    /\ UNCHANGED config

\* The process makes its next write.  Under SaveVideo stdout and stderr are
\* the one buffer, which takes every write; under GetVideo stdout is the pipe,
\* which takes a write only while it has room, and stderr is discarded.
ProcWrite ==
    /\ proc.state = "running" /\ proc.todo # <<>>
    /\ LET w == Head(proc.todo)
       IN  IF pc = "SaveVideo"
           THEN buf' = buf \o w.data /\ pipe' = pipe
           ELSE IF w.fd = 1
           THEN Len(pipe) < PipeCapacity /\ pipe' = Append(pipe, w.data) /\ buf' = buf
           ELSE UNCHANGED <<pipe, buf>>
    /\ proc' = [proc EXCEPT !.todo = Tail(@)]
    /\ UNCHANGED <<config, last, procs, calls, pc, pending>>

\* The process exits once it has nothing left to write.
ProcExit ==
    /\ proc.state = "running" /\ proc.todo = <<>>
    /\ proc' = [proc EXCEPT !.state = "exited"]
    /\ UNCHANGED <<config, last, procs, calls, pc, pending, pipe, buf>>

\* cmd.Run returns in GetVideo: the process has exited, and the Wait inside
\* Run has closed the read end of the stdout pipe with whatever it still held.
ReturnGetVideo ==
    /\ pc = "GetVideo" /\ proc.state = "exited"
    /\ last' = pending @@ [open |-> FALSE, exited |-> TRUE, unread |-> Len(pipe)]
    /\ calls' = calls + 1
    /\ pc' = "idle" /\ pending' = NoCall /\ proc' = NoProc /\ pipe' = <<>>
    /\ UNCHANGED <<config, procs, buf>>

\* cmd.Wait returns in SaveVideo: the process has exited and the buffer is read.
ReturnSaveVideo ==
    /\ pc = "SaveVideo" /\ proc.state = "exited"
    /\ last' = pending @@ [exited |-> TRUE]
    /\ calls' = calls + 1
    /\ pc' = "idle" /\ pending' = NoCall /\ proc' = NoProc /\ buf' = ""
    /\ UNCHANGED <<config, procs, pipe>>

Next ==
    \/ \E c \in RawConfigs : CallGet(c)
    \/ \E t \in AudioTexts : CallSetAudio(t)
    \/ \E t \in LevelTexts : CallSetLevel(t)
    \/ \E t \in ProfileTexts : CallSetProfile(t)
    \/ \E t \in NumberTexts : CallSetWidth(t)
    \/ \E t \in NumberTexts : CallSetHeight(t)
    \/ \E t \in NumberTexts : CallSetCRF(t)
    \/ \E t \in NumberTexts : CallSetTime(t)
    \/ \E t \in NumberTexts : CallSetRate(t)
    \/ \E t \in NumberTexts : CallSetSize(t)
    \/ \E i \in Inputs, t \in Titles : CallGetVideo(i, t)
    \/ \E i \in Inputs, o \in Outputs, t \in Titles : CallSaveVideo(i, o, t)
    \/ ProcWrite
    \/ ProcExit
    \/ ReturnGetVideo
    \/ ReturnSaveVideo

Spec == Init /\ [][Next]_vars

\* the host schedules the process, and a call whose wait is over returns
FairSpec ==
    Spec /\ WF_vars(ProcWrite) /\ WF_vars(ProcExit) /\ WF_vars(ReturnGetVideo) /\ WF_vars(ReturnSaveVideo)

TypeOK ==
    /\ calls \in 0..MaxCalls
    /\ Len(procs) <= calls + 1
    /\ config.Copy \in BOOLEAN /\ config.Audio \in BOOLEAN
    /\ pc \in {"idle", "GetVideo", "SaveVideo"}
    /\ Len(pipe) <= PipeCapacity

(* ======================= properties ===================================== *)
IsVideoCall == last.op \in {"GetVideo", "SaveVideo"}

\* a video call that got past validation and built its command
Assembled == IsVideoCall /\ last.args # <<>>

HasArg(x) == \E i \in 1..Len(last.args) : last.args[i] = x

HasPair(x, y) == \E i \in 1..(Len(last.args) - 1) : last.args[i] = x /\ last.args[i + 1] = y

(* C1: after Get and any sequence of setter calls, the configuration read
   through Config() has Height and Width in [MinimumFrameSize,
   MaximumFrameSize], CRF in [MinimumEncodeCRF, MaximumEncodeCRF], Rate in
   [MinimumFrameRate, MaximumFrameRate], Time # 0 and at most
   MaximumCaptureTime, Size # 0 and at most MaximumCaptureSize, Prof and Level
   among the allowed texts and a non-empty FFMPEG. *)
C1_ConfigAlwaysValid ==
    /\ config.Height >= MinimumFrameSize /\ config.Height <= MaximumFrameSize
    /\ config.Width >= MinimumFrameSize /\ config.Width <= MaximumFrameSize
    /\ config.CRF >= MinimumEncodeCRF /\ config.CRF <= MaximumEncodeCRF
    /\ config.Rate >= MinimumFrameRate /\ config.Rate <= MaximumFrameRate
    /\ config.Time # 0 /\ config.Time <= MaximumCaptureTime
    /\ config.Size # 0 /\ config.Size <= MaximumCaptureSize
    /\ config.Prof \in {"main", "baseline", "high"}
    /\ config.Level \in {"3.0", "3.1", "4.0", "4.1", "4.2"}
    /\ config.FFMPEG # ""

\* a setter was handed an unparsable text after an out-of-range construction
C1_Witness ==
    /\ last.op = "SetTime" /\ last.arg = "x"
    /\ config.Time = DefaultCaptureTime
    /\ config.Size = -1

\* the numbers the number texts of the model stand for
NumberOf ==
    [t \in {"999999999", "1", "-1", "20", "150"} |->
        IF t = "999999999" THEN 999999999
        ELSE IF t = "1" THEN 1
        ELSE IF t = "-1" THEN 0 - 1
        ELSE IF t = "20" THEN 20
        ELSE 150]

\* per numeric setter: its field, default, bounds, and whether it has a lower clamp
NumericSetters ==
    [SetHeight |-> [field |-> "Height", def |-> DefaultFrameHeight, min |-> MinimumFrameSize,
                    max |-> MaximumFrameSize, lower |-> TRUE],
     SetWidth  |-> [field |-> "Width", def |-> DefaultFrameWidth, min |-> MinimumFrameSize,
                    max |-> MaximumFrameSize, lower |-> TRUE],
     SetCRF    |-> [field |-> "CRF", def |-> DefaultEncodeCRF, min |-> MinimumEncodeCRF,
                    max |-> MaximumEncodeCRF, lower |-> TRUE],
     SetRate   |-> [field |-> "Rate", def |-> DefaultFrameRate, min |-> MinimumFrameRate,
                    max |-> MaximumFrameRate, lower |-> TRUE],
     SetTime   |-> [field |-> "Time", def |-> DefaultCaptureTime, min |-> 1,
                    max |-> MaximumCaptureTime, lower |-> FALSE],
     SetSize   |-> [field |-> "Size", def |-> DefaultCaptureSize, min |-> 1,
                    max |-> MaximumCaptureSize, lower |-> FALSE]]

(* C2: each numeric setter returns, and stores in its field, the
   normalisation of its argument: "" gives the default, a value above the
   maximum gives the maximum, for height, width, CRF and rate a non-zero
   value below the minimum gives the minimum, a value inside the bounds is
   returned unchanged, and for SetTime and SetSize a negative value is
   returned unchanged. *)
C2_NumericSetterNormalises ==
    last.op \in DOMAIN NumericSetters =>
        LET f == NumericSetters[last.op]
            ret == last.ret
        IN  /\ ret = config[f.field]
            /\ last.arg = "" => ret = f.def
            /\ last.arg \in DOMAIN NumberOf =>
                LET v == NumberOf[last.arg]
                IN  /\ v > f.max => ret = f.max
                    /\ (f.lower /\ v # 0 /\ v < f.min) => ret = f.min
                    /\ (v >= f.min /\ v <= f.max) => ret = v
                    /\ (~f.lower /\ v < 0) => ret = v

\* SetCRF clamped a small value up and SetTime let a negative one through
C2_Witness ==
    \/ last.op = "SetCRF" /\ last.arg = "1" /\ last.ret = MinimumEncodeCRF
    \/ last.op = "SetTime" /\ last.arg = "-1" /\ last.ret = 0 - 1

(* C3: Get normalises the Config it is given: every field left at its zero
   value reads back as the corresponding default, and every supplied
   in-range number and allowed enum text is preserved. *)
C3_GetNormalises ==
    last.op = "Get" =>
        LET a == last.arg
        IN  /\ a.FFMPEG = "" => config.FFMPEG = DefaultFFmpegPath
            /\ a.Level = "" => config.Level = DefaultLevel
            /\ a.Prof = "" => config.Prof = DefaultProfile
            /\ a.Level \in {"3.0", "3.1", "4.0", "4.1", "4.2"} => config.Level = a.Level
            /\ a.Prof \in {"main", "baseline", "high"} => config.Prof = a.Prof
            /\ \A op \in DOMAIN NumericSetters :
                LET f == NumericSetters[op]
                IN  /\ a[f.field] = 0 => config[f.field] = f.def
                    /\ (a[f.field] >= f.min /\ a[f.field] <= f.max) => config[f.field] = a[f.field]

\* Get was handed a Config with an empty path and in-range numbers
C3_Witness ==
    /\ last.op = "Get"
    /\ last.arg.FFMPEG = "" /\ last.arg.Width = 1920 /\ last.arg.Prof = "baseline"
    /\ config.Width = 1920 /\ config.FFMPEG = DefaultFFmpegPath

(* C4: SetProfile returns and stores its text when it is main, baseline or
   high and DefaultProfile otherwise; SetLevel returns and stores its text
   when it is 3.0, 3.1, 4.0, 4.1 or 4.2 and DefaultLevel otherwise; the value
   returned is the value then read through Config(). *)
C4_ProfileAndLevel ==
    /\ last.op = "SetProfile" =>
        /\ last.ret = config.Prof
        /\ last.ret = IF last.arg \in {"main", "baseline", "high"} THEN last.arg ELSE DefaultProfile
    /\ last.op = "SetLevel" =>
        /\ last.ret = config.Level
        /\ last.ret = IF last.arg \in {"3.0", "3.1", "4.0", "4.1", "4.2"} THEN last.arg
                      ELSE DefaultLevel

\* an unknown level was replaced by the default, an allowed one was kept
C4_Witness ==
    \/ last.op = "SetLevel" /\ last.arg = "9.9" /\ config.Level = DefaultLevel
    \/ last.op = "SetProfile" /\ last.arg = "high" /\ config.Prof = "high"

NoSlash(b) == \A i \in 1..Len(b) : SubSeq(b, i, i) # "/"

\* the last element of a path that does not end in a separator
BaseNameOf(p) ==
    CHOOSE b \in {SubSeq(p, i, Len(p)) : i \in 1..Len(p)} :
        /\ NoSlash(b)
        /\ Len(b) = Len(p) \/ SubSeq(p, Len(p) - Len(b), Len(p) - Len(b)) = "/"

\* the argument vector the documentation of getVideoHandle describes, block by block
ExpectedArgs(c, input, output, title) ==
    LET head  == <<c.FFMPEG, "-v", "16", "-rtsp_transport", "tcp", "-i", input, "-f", "mov",
                   "-metadata",
                   "title=\"" \o (IF title = "" THEN BaseNameOf(output) ELSE title) \o "\"",
                   "-y", "-map", "0">>
        size  == IF c.Size > 0 THEN <<"-fs", FormatInt(c.Size)>> ELSE <<>>
        time  == IF c.Time > 0 THEN <<"-t", Itoa(c.Time)>> ELSE <<>>
        video == IF c.Copy THEN <<"-c", "copy">>
                 ELSE <<"-vcodec", "libx264", "-profile:v", c.Prof, "-level", c.Level,
                        "-pix_fmt", "yuv420p", "-movflags", "faststart",
                        "-s", Itoa(c.Width) \o "x" \o Itoa(c.Height),
                        "-preset", "superfast", "-crf", Itoa(c.CRF), "-r", Itoa(c.Rate)>>
        audio == IF c.Audio THEN <<"-c:a", "copy">> ELSE <<"-an">>
    IN  head \o size \o time \o video \o audio \o <<output>>

(* C5: the argument vector built by getVideoHandle is, in this order: the
   executable; -v 16; -rtsp_transport tcp -i <input>; -f mov; -metadata
   title="<title>" (the base name of output when title is empty); -y -map 0;
   -fs <Size> only if Size > 0; -t <Time> only if Time > 0; the transcode
   block if Copy is false, else -c copy; -an if Audio is false, else
   -c:a copy; and the output last. *)
C5_ArgumentVector ==
    Assembled =>
        /\ last.args = ExpectedArgs(config, last.input, last.output, last.title)
        /\ last.args[1] = config.FFMPEG
        /\ last.args[Len(last.args)] = last.output

\* a copy-mode command was assembled with an empty title and a negative Size (no -fs)
C5_Witness ==
    /\ Assembled /\ last.op = "SaveVideo" /\ last.title = ""
    /\ config.Copy /\ config.Size < 0

\* the scenario of TestSaveVideo: default values, rtsp://x, /tmp/out.mov, title T
DefaultScenario ==
    /\ Assembled /\ last.op = "SaveVideo"
    /\ last.input = "rtsp://x" /\ last.output = "/tmp/out.mov" /\ last.title = "T"
    /\ ~config.Copy /\ ~config.Audio
    /\ config.Width = DefaultFrameWidth /\ config.Height = DefaultFrameHeight
    /\ config.CRF = DefaultEncodeCRF /\ config.Rate = DefaultFrameRate
    /\ config.Time = DefaultCaptureTime /\ config.Size = DefaultCaptureSize
    /\ config.Prof = DefaultProfile /\ config.Level = DefaultLevel

\* the texts of run stand at positions i, i+1, ... of the vector
At(i, run) == i + Len(run) - 1 <= Len(last.args) /\ SubSeq(last.args, i, i + Len(run) - 1) = run

\* the first position at or after from where run stands, 0 when there is none
Find(run, from) ==
    LET S == {i \in from..Len(last.args) : At(i, run)}
    IN  IF S = {} THEN 0 ELSE CHOOSE i \in S : \A j \in S : i <= j

RECURSIVE InOrder(_, _)
\* the vector contains the runs one after the other, in the order given
InOrder(runs, from) ==
    \/ runs = <<>>
    \/ LET p == Find(Head(runs), from)
       IN  p # 0 /\ InOrder(Tail(runs), p + Len(Head(runs)))

(* C6 as stated: with the default configuration the command for rtsp://x,
   /tmp/out.mov, T contains, in this order, -an, the transport and input
   flags, the metadata title, the codec/profile/level block, -crf, -t, -s, -r,
   and ends with /tmp/out.mov. *)
C6_ListedOrder ==
    DefaultScenario =>
        /\ InOrder(<< <<"-an">>,
                      <<"-rtsp_transport", "tcp", "-i", "rtsp://x">>,
                      <<"-metadata", "title=\"T\"">>,
                      <<"-vcodec", "libx264", "-profile:v", "main", "-level", "3.0">>,
                      <<"-crf", "21">>,
                      <<"-t", "15">>,
                      <<"-s", "1280x720">>,
                      <<"-r", "5">> >>, 1)
        /\ last.args[Len(last.args)] = "/tmp/out.mov"

(* C6 amended: with the default configuration the command for rtsp://x,
   /tmp/out.mov, T contains all of these, in the order the vector is built:
   the transport and input flags, the metadata title, -t 15, the
   codec/profile/level block, -s 1280x720, -crf 21, -r 5, -an, and it ends
   with /tmp/out.mov. *)
C6_BuiltOrder ==
    DefaultScenario =>
        /\ InOrder(<< <<"-rtsp_transport", "tcp", "-i", "rtsp://x">>,
                      <<"-metadata", "title=\"T\"">>,
                      <<"-t", "15">>,
                      <<"-vcodec", "libx264", "-profile:v", "main", "-level", "3.0">>,
                      <<"-s", "1280x720">>,
                      <<"-crf", "21">>,
                      <<"-r", "5">>,
                      <<"-an">> >>, 1)
        /\ last.args[Len(last.args)] = "/tmp/out.mov"

\* the default scenario was run with the program of the tests
C6_Witness == DefaultScenario /\ config.FFMPEG = EchoProgram

\* the process started by the last call that returned
LastProc == IF pc = "idle" THEN procs[Len(procs)] ELSE procs[Len(procs) - 1]

EndsInSpace(s) == s # "" /\ SubSeq(s, Len(s), Len(s)) \in {" ", "\t", "\n", "\r", "\f"}

\* the command text is the vector joined by single spaces, and a process that
\* was started was started with that vector
TextMatchesVector ==
    /\ last.cmd = Join(last.args, " ")
    /\ last.started => (procs # <<>> /\ LastProc = last.args)

(* C7 as stated: for every GetVideo or SaveVideo call that gets past
   validation the command text is the argument vector joined by single
   spaces, the process is launched with that vector, and for a process that
   echoes its arguments the command text is the executable, a space and the
   captured output. *)
C7_TextVectorAndEcho ==
    Assembled =>
        /\ TextMatchesVector
        /\ (last.op = "SaveVideo" /\ last.args[1] = EchoProgram) =>
                last.cmd = last.args[1] \o " " \o last.out

(* C7 amended: as stated, except that the command text is the executable, a
   space and the captured output only when the output path does not end in
   white space (SaveVideo trims the captured text). *)
C7_TextVectorAndEchoTrimmed ==
    Assembled =>
        /\ TextMatchesVector
        /\ (last.op = "SaveVideo" /\ last.args[1] = EchoProgram /\ ~EndsInSpace(last.output)) =>
                last.cmd = last.args[1] \o " " \o last.out

\* SaveVideo ran the echoing program and captured what it wrote
C7_Witness ==
    /\ Assembled /\ last.op = "SaveVideo" /\ last.started
    /\ last.args[1] = EchoProgram /\ last.output = "/tmp/out.mov" /\ last.out # ""

TranscodeFlags == {"-vcodec", "-profile:v", "-level", "-s", "-crf", "-r"}

(* C8: in every assembled command, Copy true gives -c copy and none of
   -vcodec, -profile:v, -level, -s, -crf, -r, Copy false gives all of those
   and no -c copy; Audio true gives -c:a copy and no -an, Audio false gives
   -an and no -c:a copy. *)
C8_ExclusiveBlocks ==
    Assembled =>
        /\ config.Copy =>
            (HasPair("-c", "copy") /\ \A f \in TranscodeFlags : ~HasArg(f))
        /\ ~config.Copy =>
            ((\A f \in TranscodeFlags : HasArg(f)) /\ ~HasArg("-c") /\ ~HasPair("-c", "copy"))
        /\ config.Audio => (HasPair("-c:a", "copy") /\ ~HasArg("-an"))
        /\ ~config.Audio => (HasArg("-an") /\ ~HasArg("-c:a"))

\* a command was assembled in copy mode with audio kept
C8_Witness == Assembled /\ config.Copy /\ config.Audio

\* the step is a GetVideo or SaveVideo call
VideoCallStep == calls' = calls + 1 /\ last'.op \in {"GetVideo", "SaveVideo"}

(* C9: GetVideo and SaveVideo with an empty input return ErrInvalidInput and
   an empty command text, whatever the output; SaveVideo with a non-empty
   input and an output that is empty or "-" returns ErrInvalidOutput; in
   these cases no process is started and the configuration is unchanged. *)
C9_ValidationBeforeSpawn ==
    [][VideoCallStep =>
        /\ last'.input = "" =>
            /\ last'.err = ErrInvalidInput /\ last'.cmd = ""
            /\ procs' = procs /\ config' = config /\ ~last'.started
        /\ (last'.op = "SaveVideo" /\ last'.input # "" /\ last'.output \in {"", "-"}) =>
            /\ last'.err = ErrInvalidOutput
            /\ procs' = procs /\ config' = config /\ ~last'.started]_vars

\* SaveVideo refused the stream sentinel as output
C9_Witness ==
    /\ last.op = "SaveVideo" /\ last.input = "rtsp://x" /\ last.output = "-"
    /\ last.err = ErrInvalidOutput

(* C10 as stated: whenever GetVideo or SaveVideo returns a non-nil error the
   returned command text is the full, non-empty invocation. *)
C10_CommandWithEveryError ==
    (IsVideoCall /\ last.err # Nil) =>
        /\ last.cmd # ""
        /\ last.cmd = ExpectedArgs(config, last.input, last.output, last.title)[1] \o " "
                      \o Join(Tail(ExpectedArgs(config, last.input, last.output, last.title)), " ")

(* C10 amended: whenever GetVideo or SaveVideo returns a launch or execution
   failure the returned command text is the full, non-empty invocation that
   was attempted; with ErrInvalidInput or ErrInvalidOutput the command text
   is empty. *)
C10_CommandWithProcessError ==
    (IsVideoCall /\ last.err # Nil) =>
        IF last.err \in {ErrInvalidInput, ErrInvalidOutput}
        THEN last.cmd = ""
        ELSE /\ last.cmd # ""
             /\ last.cmd = ExpectedArgs(config, last.input, last.output, last.title)[1] \o " "
                           \o Join(Tail(ExpectedArgs(config, last.input, last.output, last.title)), " ")

\* the process failed, or could not be started, and the command text came back
C10_Witness ==
    /\ last.op = "GetVideo" /\ last.err # Nil /\ last.cmd # ""
    /\ ~last.started

(* C11: a SaveVideo call that passes validation starts exactly one process,
   with stdout and stderr going to one buffer, and returns only after that
   process has exited (or failed to start); the text it returns is the
   trimmed content of the buffer at exit, whether the process succeeded
   (error nil) or failed (error non-nil). *)
C11_SaveVideoWaitsAndKeepsOutput ==
    [][/\ (pc = "idle" /\ pc' = "SaveVideo") =>
            (procs' = Append(procs, pending'.args) /\ buf' = "" /\ proc'.state = "running")
       /\ (pc = "SaveVideo" /\ pc' = "SaveVideo") =>
            (procs' = procs /\ last' = last /\ pipe' = pipe)
       /\ (pc = "SaveVideo" /\ pc' = "idle") =>
            /\ proc.state = "exited" /\ proc.todo = <<>>
            /\ procs' = procs
            /\ last'.op = "SaveVideo" /\ last'.args = procs[Len(procs)]
            /\ last'.out = TrimSpace(buf)
            /\ (last'.err = Nil) <=> (proc.exit = Nil)
       /\ (pc = "idle" /\ pc' = "idle" /\ calls' = calls + 1
           /\ last'.op = "SaveVideo" /\ last'.args # <<>>) =>
            (procs' = procs /\ last'.err # Nil /\ last'.out = "")]_vars

\* SaveVideo returned the diagnostic of a process that failed
C11_Witness ==
    /\ last.op = "SaveVideo" /\ last.exited
    /\ last.err # Nil /\ last.out = "Connection refused"

(* C12: GetVideo blocks the caller only until the process has been started:
   when it returns without error the returned stream is open, so that the
   caller can read the standard output of the process from it. *)
C12_GetVideoReturnsOpenStream ==
    (last.op = "GetVideo" /\ last.err = Nil) => (last.stream # Nil /\ last.open)

\* the value of the flag: the text after it in the vector, as a number
FlagValues(flag) ==
    {ParseInt(last.args[i + 1]) : i \in {j \in 1..(Len(last.args) - 1) : last.args[j] = flag}}

\* a negative Time given to Get or SetTime is kept
NegativeTimeKept ==
    /\ (last.op = "Get" /\ last.arg.Time < 0) => config.Time = last.arg.Time
    /\ (last.op = "SetTime" /\ last.arg = "-1") => (config.Time = 0 - 1 /\ last.ret = 0 - 1)

(* C13 as stated: a negative Time n is kept in the configuration and every
   command assembled afterwards carries the duration flag with that value,
   -t n. *)
C13_NegativeTimePassedOn ==
    /\ NegativeTimeKept
    /\ (Assembled /\ config.Time < 0) => FlagValues("-t") = {config.Time}

(* C13 amended: a negative Time n is kept in the configuration and no
   command assembled afterwards carries a duration flag (-t) at all. *)
C13_NegativeTimeKeptNotPassed ==
    /\ NegativeTimeKept
    /\ (Assembled /\ config.Time < 0) => (~HasArg("-t") /\ FlagValues("-t") = {})

\* a command was assembled while Time was negative
C13_Witness == Assembled /\ config.Time < 0 /\ last.started

\* the numbers a text of the form <width>x<height> stands for
FrameSizes(t) ==
    {<<ParseInt(SubSeq(t, 1, k - 1)), ParseInt(SubSeq(t, k + 1, Len(t)))>> :
        k \in {j \in 1..Len(t) : SubSeq(t, j, j) = "x"}}

(* C14: every number in an assembled argument list is valid: -s is WxH with
   both in [MinimumFrameSize, MaximumFrameSize], -crf is in
   [MinimumEncodeCRF, MaximumEncodeCRF], -r in [MinimumFrameRate,
   MaximumFrameRate], and -t or -fs, when present, is strictly positive and
   at most MaximumCaptureTime or MaximumCaptureSize. *)
C14_AssembledNumbersValid ==
    Assembled =>
        /\ \A i \in 1..(Len(last.args) - 1) :
            last.args[i] = "-s" =>
                /\ FrameSizes(last.args[i + 1]) # {}
                /\ \A wh \in FrameSizes(last.args[i + 1]) :
                    /\ wh[1] >= MinimumFrameSize /\ wh[1] <= MaximumFrameSize
                    /\ wh[2] >= MinimumFrameSize /\ wh[2] <= MaximumFrameSize
        /\ \A v \in FlagValues("-crf") : v >= MinimumEncodeCRF /\ v <= MaximumEncodeCRF
        /\ \A v \in FlagValues("-r") : v >= MinimumFrameRate /\ v <= MaximumFrameRate
        /\ \A v \in FlagValues("-t") : v > 0 /\ v <= MaximumCaptureTime
        /\ \A v \in FlagValues("-fs") : v > 0 /\ v <= MaximumCaptureSize
        /\ ~config.Copy =>
            (FlagValues("-crf") # {} /\ FlagValues("-r") # {} /\ HasArg("-s"))

\* a transcoding command was assembled after SetSize was given a number above the maximum
C14_Witness ==
    /\ Assembled /\ ~config.Copy /\ HasArg("-s")
    /\ FlagValues("-fs") = {MaximumCaptureSize} /\ FlagValues("-t") # {}

NumericFields == {"Height", "Width", "CRF", "Rate", "Time", "Size"}

\* numbers around every default, minimum and maximum
SampleValues ==
    {0 - 5, 0 - 1, 0, 1, 2, 15, 16, 17, 21, 30, 31, 59, 60, 61, 99, 100, 101, 720, 1200, 1201,
     4999, 5000, 5001, 2500000, 104857599, 104857600, 104857601}

(* C15: the clamp pass is idempotent: for a configuration with any integers
   in its numeric fields one pass gives a fixed point of the pass, and on a
   configuration that is already normalised the pass changes nothing. *)
C15_FixValuesIdempotent ==
    /\ fixValues(config) = config
    /\ last.op = "Get" =>
        /\ fixValues(fixValues(last.arg)) = fixValues(last.arg)
        /\ \A f \in NumericFields, v \in SampleValues :
            LET c == [last.arg EXCEPT ![f] = v]
            IN  fixValues(fixValues(c)) = fixValues(c)

\* Get was handed numbers above the maximums
C15_Witness ==
    /\ last.op = "Get" /\ last.arg.Time > MaximumCaptureTime /\ last.arg.Height > MaximumFrameSize
    /\ config.Time = MaximumCaptureTime

\* the field each setter is for
SetterField ==
    [SetAudio |-> "Audio", SetLevel |-> "Level", SetProfile |-> "Prof", SetWidth |-> "Width",
     SetHeight |-> "Height", SetCRF |-> "CRF", SetTime |-> "Time", SetRate |-> "Rate",
     SetSize |-> "Size"]

\* the configuration the named setter leaves when called on c
Apply(op, c, text) ==
    CASE op = "SetAudio" -> SetAudio(c, text)
      [] op = "SetLevel" -> SetLevel(c, text)
      [] op = "SetProfile" -> SetProfile(c, text)
      [] op = "SetWidth" -> SetWidth(c, text)
      [] op = "SetHeight" -> SetHeight(c, text)
      [] op = "SetCRF" -> SetCRF(c, text)
      [] op = "SetTime" -> SetTime(c, text)
      [] op = "SetRate" -> SetRate(c, text)
      [] op = "SetSize" -> SetSize(c, text)

(* C16: on an encoder obtained from Get a setter changes only its own field,
   every other field of the configuration is left as it was, and the value
   it gives its field depends on its argument alone (it is the value the
   same call gives on a fresh default encoder); so the configuration after a
   sequence of setter calls depends only on the last call made for each
   field. *)
C16_SettersChangeOwnFieldOnly ==
    [][(calls' = calls + 1 /\ last'.op \in DOMAIN SetterField) =>
        LET own == SetterField[last'.op]
        IN  /\ \A f \in (DOMAIN config) \ {own} : config'[f] = config[f]
            /\ config'[own] = Apply(last'.op, Get(ZeroConfig), last'.arg)[own]]_vars

\* SetWidth was called after SetTime had stored a negative duration
C16_Witness ==
    /\ last.op = "SetWidth" /\ last.arg = "150" /\ config.Width = 150
    /\ config.Time = 0 - 1

(* C17: every GetVideo call with a non-empty input eventually returns when
   the process writes a finite amount to its standard output and exits once
   its writes are accepted, whatever the amount is relative to the capacity
   of the pipe. *)
C17_GetVideoReturns == (pc = "GetVideo") ~> (pc = "idle")

====
